---- MODULE Spec2Model ----
(***************************************************************************)
(* Model of custom_components/secret_service/__init__.py: the registry of *)
(* individual and group secret validators (SecretValidatorService), the   *)
(* two service handlers registered by async_setup (reload, check_secret)  *)
(* and the salted-hash validators they are built from.                    *)
(*                                                                         *)
(* Python values are encoded as follows.  A dict is a function (a record  *)
(* when its keys are strings), the empty dict is <<>>.  An Optional value *)
(* is a set with at most one element ({} is None).  A list is a sequence. *)
(* An exception leaving a constructor or a method is a "raised" flag in   *)
(* the operator's result.                                                  *)
(***************************************************************************)
EXTENDS Integers, Sequences, FiniteSets, TLC

\* ------------------------------------------------------------------ bounds
\* Largest number of secret entries (individual secrets plus group members)
\* in a configuration the registry is constructed from.
MaxEntries == 2
\* Largest number of secret entries in a configuration handed to a reload.
MaxReloadEntries == 1
\* Largest number of secret entries in a configuration of the stepwise reload.
MaxStepEntries == 1

\* Names of secrets and groups, and names a check_secret call may ask for.
Names == {"a", "b"}
\* Names configured where the reload handler is followed statement by statement.
StepNames == {"a"}
\* Plaintext secret values; the values in Unhashable are the ones the hash
\* primitive refuses (value.encode() or bcrypt.hashpw raising).
Values == {0, 1, 2}
Unhashable == {0}
\* Outcomes of bcrypt.gensalt().
Salts == {1, 2}

\* --------------------------------------------------------------- const.py
DOMAIN_KEY == "secret_service"
SUCCESS == "success"
FAILED_INVALID == "failed_invalid"
FAILED_ATTEMPTS_EXCEEDED == "failed_attempts_exceeded"
FAILED_RATE_EXCEEDED == "failed_rate_exceeded"
ValidateResult == {SUCCESS, FAILED_INVALID, FAILED_ATTEMPTS_EXCEEDED, FAILED_RATE_EXCEEDED}
\* Marks a call that ended by an exception instead of a return value.
RAISED == "raised"

\* ------------------------------------------------------------ dict helpers
\* d[key] = value on a dict.
Put(d, key, value) == [k \in DOMAIN d \cup {key} |-> IF k = key THEN value ELSE d[k]]
\* Truthiness of d.get(key) for a list-valued key: present and not empty.
Truthy(d, key) == key \in DOMAIN d /\ d[key] # <<>>
\* d.get(key) of a list-valued key, with None and [] both read as no element.
GetList(d, key) == IF key \in DOMAIN d THEN d[key] ELSE <<>>

\* ------------------------------------------------------------------ hashing
\* bcrypt.hashpw(value.encode(), salt): raises on the values the primitive
\* refuses, else a digest that carries the salt and a mix of value and salt.
Raises(value) == value \in Unhashable
hashpw(value, salt) == <<salt, (value * 7 + salt * 3) % 31>>

\* ---------------------------------------------------------- SecretValidator
generate_hashed_secret(self, value) == hashpw(value, self.salt)

\* SecretValidator.__init__ with the salt gensalt() returned; the caller has
\* checked Raises(secret_config.value).
SecretValidator(secret_config, salt) ==
    [name |-> secret_config.secret,
     salt |-> salt,
     hashed_secret |-> hashpw(secret_config.value, salt)]

\* Mutant: the candidate is compared without being hashed under the stored salt.
SecretValidator_validate_unsalted(self, value) ==
    IF Raises(value) THEN RAISED
    ELSE IF self.hashed_secret = hashpw(value, 0) THEN SUCCESS
    ELSE FAILED_INVALID

SecretValidator_validate(self, value) ==
    IF Raises(value) THEN RAISED
    ELSE IF self.hashed_secret = generate_hashed_secret(self, value) THEN SUCCESS
    ELSE FAILED_INVALID

\* ----------------------------------------------------- SecretGroupValidator
generate_secret_key(salt, value) == hashpw(value, salt)

\* Mutant: the lookup key is made with the member's salt, not the group's.
RECURSIVE IndexMembers_member_salt(_, _, _, _)
IndexMembers_member_salt(validators, secret_configs, salt, tape) ==
    IF secret_configs = <<>> THEN [raised |-> FALSE, validators |-> validators]
    ELSE LET secret_config == Head(secret_configs) IN
         IF Raises(secret_config.value)
         THEN [raised |-> TRUE, validators |-> validators]
         ELSE IndexMembers_member_salt(
                 Put(validators,
                     generate_secret_key(Head(tape), secret_config.value),
                     SecretValidator(secret_config, Head(tape))),
                 Tail(secret_configs), salt, Tail(tape))

\* The loop of SecretGroupValidator.__init__: tape holds the salts the
\* members' gensalt() calls return, in call order.
RECURSIVE IndexMembers(_, _, _, _)
IndexMembers(validators, secret_configs, salt, tape) ==
    IF secret_configs = <<>> THEN [raised |-> FALSE, validators |-> validators]
    ELSE LET secret_config == Head(secret_configs) IN
         IF Raises(secret_config.value)
         THEN [raised |-> TRUE, validators |-> validators]
         ELSE IndexMembers(
                 Put(validators,
                     generate_secret_key(salt, secret_config.value),
                     SecretValidator(secret_config, Head(tape))),
                 Tail(secret_configs), salt, Tail(tape))

\* SecretGroupValidator.__init__: the first salt of the tape is the group's.
SecretGroupValidator(group_config, tape) ==
    LET salt == Head(tape)
        index == IndexMembers(<<>>, group_config.secrets, salt, Tail(tape))
    IN [raised |-> index.raised,
        self |-> [name |-> group_config.group,
                  salt |-> salt,
                  validators |-> index.validators]]

\* Mutant: the member's digest is compared with the lookup key instead of
\* the candidate being hashed again under the member's own salt.
SecretGroupValidator_validate_by_key(self, value) ==
    IF Raises(value) THEN RAISED
    ELSE LET key == generate_secret_key(self.salt, value) IN
         IF key \in DOMAIN self.validators /\ self.validators[key].hashed_secret = key
         THEN SUCCESS
         ELSE FAILED_INVALID

SecretGroupValidator_validate(self, value) ==
    IF Raises(value) THEN RAISED
    ELSE LET key == generate_secret_key(self.salt, value) IN
         IF key \in DOMAIN self.validators
         THEN SecretValidator_validate(self.validators[key], value)
         ELSE FAILED_INVALID

\* --------------------------------------------------- SecretValidatorService
\* Number of gensalt() calls a group or a whole configuration makes.
GroupSaltCalls(group_config) == 1 + Len(group_config.secrets)
RECURSIVE SumSaltCalls(_)
SumSaltCalls(group_configs) ==
    IF group_configs = <<>> THEN 0
    ELSE GroupSaltCalls(Head(group_configs)) + SumSaltCalls(Tail(group_configs))
SaltCalls(service_cfg) ==
    SumSaltCalls(GetList(service_cfg, "groups")) + Len(GetList(service_cfg, "secrets"))
Tapes(service_cfg) == [1..SaltCalls(service_cfg) -> Salts]

\* The group loop of _load_config.
RECURSIVE LoadGroups(_, _, _)
LoadGroups(validators, group_configs, tape) ==
    IF group_configs = <<>> THEN [raised |-> FALSE, validators |-> validators]
    ELSE LET group_config == Head(group_configs)
             made == SecretGroupValidator(group_config, tape)
         IN IF made.raised THEN [raised |-> TRUE, validators |-> validators]
            ELSE LoadGroups(Put(validators, group_config.group, made.self),
                            Tail(group_configs),
                            SubSeq(tape, GroupSaltCalls(group_config) + 1, Len(tape)))

\* The secret loop of _load_config.
RECURSIVE LoadSecrets(_, _, _)
LoadSecrets(validators, secret_configs, tape) ==
    IF secret_configs = <<>> THEN [raised |-> FALSE, validators |-> validators]
    ELSE LET secret_config == Head(secret_configs) IN
         IF Raises(secret_config.value)
         THEN [raised |-> TRUE, validators |-> validators]
         ELSE LoadSecrets(Put(validators, secret_config.secret,
                              SecretValidator(secret_config, Head(tape))),
                          Tail(secret_configs), Tail(tape))

\* SecretValidatorService._load_config on maps (groups, individuals).
load_config(groups, individuals, service_cfg, tape) ==
    LET group_configs == GetList(service_cfg, "groups")
        secret_configs == GetList(service_cfg, "secrets")
        g == IF Truthy(service_cfg, "groups")
             THEN LoadGroups(groups, group_configs, tape)
             ELSE [raised |-> FALSE, validators |-> groups]
        rest == SubSeq(tape, SumSaltCalls(group_configs) + 1, Len(tape))
        s == IF g.raised \/ ~Truthy(service_cfg, "secrets")
             THEN [raised |-> g.raised, validators |-> individuals]
             ELSE LoadSecrets(individuals, secret_configs, rest)
    IN [raised |-> s.raised, groups |-> g.validators, individuals |-> s.validators]

\* Mutant: the maps are not cleared before the configuration is loaded.
reload_without_clear(groups, individuals, service_cfg, tape) ==
    load_config(groups, individuals, service_cfg, tape)

\* SecretValidatorService.reload: both maps cleared, then _load_config.
reload(groups, individuals, service_cfg, tape) ==
    load_config(<<>>, <<>>, service_cfg, tape)

\* Mutant: the group map is tried before the individual map.
validate_group_first(individuals, groups, name, value) ==
    IF name \in DOMAIN groups
    THEN SecretGroupValidator_validate(groups[name], value)
    ELSE IF name \in DOMAIN individuals
    THEN SecretValidator_validate(individuals[name], value)
    ELSE FAILED_INVALID

\* Mutant: the group map is indexed without the membership test.
validate_unknown_raises(individuals, groups, name, value) ==
    IF name \in DOMAIN individuals
    THEN SecretValidator_validate(individuals[name], value)
    ELSE IF name \in DOMAIN groups
    THEN SecretGroupValidator_validate(groups[name], value)
    ELSE RAISED

\* SecretValidatorService.validate.
validate(individuals, groups, name, value) ==
    IF name \in DOMAIN individuals
    THEN SecretValidator_validate(individuals[name], value)
    ELSE IF name \in DOMAIN groups
    THEN SecretGroupValidator_validate(groups[name], value)
    ELSE FAILED_INVALID

\* Mutant: full_response is ignored, the answer is always the boolean.
async_handle_check_secret_bool(individuals, groups, call) ==
    LET result == validate(individuals, groups, call.name, call.value)
    IN [call |-> call,
        result |-> result,
        returned |-> IF result = RAISED THEN <<"exception", RAISED>>
                     ELSE <<"bool", result = SUCCESS>>]

\* async_handle_check_secret: what the call returns ("returned" is the value
\* under the key "result", tagged with its Python type), with the call and
\* the ValidateResult it was computed from.
async_handle_check_secret(individuals, groups, call) ==
    LET name == call.name
        value == call.value
        use_full_response ==
            IF "full_response" \in DOMAIN call THEN call.full_response ELSE FALSE
        result == validate(individuals, groups, name, value)
    IN [call |-> call,
        result |-> result,
        returned |-> IF result = RAISED THEN <<"exception", RAISED>>
                     ELSE IF use_full_response THEN <<"ValidateResult", result>>
                     ELSE <<"bool", result = SUCCESS>>]

\* ------------------------------------------------------------------ inputs
SecretConfigs(names) == [secret : names, value : Values]
SecretLists(names, n) == UNION {[1..k -> SecretConfigs(names)] : k \in 0..n}
GroupConfigs(names, n) == [group : names, secrets : SecretLists(names, n)]
GroupLists(names, n) == {<<>>} \cup {<<g>> : g \in GroupConfigs(names, n)}
\* Configurations SERVICE_SCHEMA accepts (at least one of the two keys) over
\* the given names, with at most n secret entries in all.
ServiceConfigs(names, n) ==
    {[secrets |-> s] : s \in SecretLists(names, n)}
    \cup {[groups |-> g] : g \in GroupLists(names, n)}
    \cup UNION {{[secrets |-> s, groups |-> g] : g \in GroupLists(names, n - Len(s))}
                : s \in SecretLists(names, n)}
\* What async_integration_yaml_config returns: None, a configuration without
\* the domain's key, or one with it.
Fetched(configs) == {{}, {[homeassistant |-> <<>>]}}
                    \cup {{[secret_service |-> c]} : c \in configs}
SetupConfigs == ServiceConfigs(Names, MaxEntries)
ReloadConfigs == ServiceConfigs(Names, MaxReloadEntries)
StepConfigs == ServiceConfigs(StepNames, MaxStepEntries)
NewConfigs == Fetched(ReloadConfigs)
StepNewConfigs == Fetched(StepConfigs)
\* call.data as CHECK_SECRET_SCHEMA lets it through.
Calls == [name : Names, value : Values]
         \cup [name : Names, value : Values, full_response : BOOLEAN]

\* ------------------------------------------------------------------- state
VARIABLES
    individual_validators,  \* SecretValidatorService._individual_validators
    group_validators,       \* SecretValidatorService._group_validators
    pc,                     \* position of async_handle_reload_entry
    new_config,             \* its local new_config once fetched (Optional)
    service_config,         \* history: the configuration the maps were completely
                            \* built from (Optional: {} once a rebuild has raised)
    outcome,                \* history: how construction or the last reload ended
    retired,                \* history: names the last completed reload dropped
    response                \* history: the last check_secret call and its answer
                            \* since the maps were last written (Optional)

vars == <<individual_validators, group_validators, pc, new_config,
          service_config, outcome, retired, response>>

\* async_setup: the service is constructed from config[DOMAIN]; a constructor
\* that raises fails the setup, and no handler is registered.
Setup(configs) ==
    \E service_cfg \in configs : \E tape \in Tapes(service_cfg) :
        LET made == load_config(<<>>, <<>>, service_cfg, tape) IN
        /\ ~made.raised
        /\ group_validators = made.groups
        /\ individual_validators = made.individuals
        /\ service_config = {service_cfg}
        /\ pc = "idle"
        /\ new_config = {}
        /\ outcome = "constructed"
        /\ retired = {}
        /\ response = {}

Init == Setup(SetupConfigs)
InitReload == Setup(ReloadConfigs)
InitSteps == Setup(StepConfigs)

\* Mutant: the reload handler gives the loop away between any two statements.
LoopFree_anywhere(p) == TRUE

\* The event loop runs another handler only while async_handle_reload_entry
\* is not running or is suspended at its one await.
LoopFree(p) == p \in {"idle", "awaiting"}

\* Mutant: an individual secret is used up by the call that matches it.
CheckSecret_consuming ==
    /\ LoopFree(pc)
    /\ \E call \in Calls :
       \E r \in {async_handle_check_secret(individual_validators,
                                           group_validators, call)} :
         /\ response' = {r}
         /\ individual_validators' =
              IF r.result = SUCCESS /\ call.name \in DOMAIN individual_validators
              THEN [k \in DOMAIN individual_validators \ {call.name}
                      |-> individual_validators[k]]
              ELSE individual_validators
    /\ UNCHANGED <<group_validators, pc, new_config, service_config, outcome, retired>>

\* The check_secret handler: no await, so one step.
CheckSecret ==
    /\ LoopFree(pc)
    /\ \E call \in Calls :
         response' = {async_handle_check_secret(individual_validators,
                                                group_validators, call)}
    /\ UNCHANGED <<individual_validators, group_validators, pc, new_config,
                   service_config, outcome, retired>>

\* The reload handler up to its await.
ReloadCall ==
    /\ pc = "idle"
    /\ pc' = "awaiting"
    /\ outcome' = "pending"
    /\ retired' = {}
    /\ UNCHANGED <<individual_validators, group_validators, new_config,
                   service_config, response>>

ConfigNames(service_cfg) ==
    {GetList(service_cfg, "secrets")[i].secret : i \in DOMAIN GetList(service_cfg, "secrets")}
    \cup {GetList(service_cfg, "groups")[i].group : i \in DOMAIN GetList(service_cfg, "groups")}

\* new_config is None or lacks the domain's key.
NotFound(fetched) == fetched = {} \/ (\A c \in fetched : DOMAIN_KEY \notin DOMAIN c)

\* The reload handler from the await's return to its end, as one step.
ReloadEntry ==
    /\ pc = "awaiting"
    /\ pc' = "idle"
    /\ new_config' = {}
    /\ response' = {}
    /\ \E fetched \in NewConfigs :
         IF NotFound(fetched)
         THEN /\ outcome' = "ValueError"
              /\ UNCHANGED <<individual_validators, group_validators,
                             service_config, retired>>
         ELSE \E c \in fetched : \E tape \in Tapes(c[DOMAIN_KEY]) :
                \E made \in {reload(group_validators, individual_validators,
                                    c[DOMAIN_KEY], tape)} :
                /\ group_validators' = made.groups
                /\ individual_validators' = made.individuals
                /\ outcome' = IF made.raised THEN "rebuild_raised" ELSE "reloaded"
                /\ service_config' = IF made.raised THEN {} ELSE {c[DOMAIN_KEY]}
                /\ retired' = IF made.raised THEN {}
                              ELSE (DOMAIN individual_validators \cup DOMAIN group_validators)
                                   \ ConfigNames(c[DOMAIN_KEY])

\* ---- the reload handler statement by statement (what another handler
\* ---- would see if it ran in between)
\* The await returns: the check of new_config, then service.reload is entered.
ReloadFetched ==
    /\ pc = "awaiting"
    /\ \E fetched \in StepNewConfigs :
         IF NotFound(fetched)
         THEN /\ outcome' = "ValueError"
              /\ pc' = "idle"
              /\ new_config' = {}
         ELSE /\ new_config' = {c[DOMAIN_KEY] : c \in fetched}
              /\ pc' = "clear_groups"
              /\ UNCHANGED outcome
    /\ UNCHANGED <<individual_validators, group_validators, service_config,
                   retired, response>>

\* self._group_validators.clear()
ReloadClearGroups ==
    /\ pc = "clear_groups"
    /\ group_validators' = <<>>
    /\ pc' = "clear_individuals"
    /\ UNCHANGED <<individual_validators, new_config, service_config, outcome,
                   retired>>
    /\ response' = {}

\* self._individual_validators.clear()
ReloadClearIndividuals ==
    /\ pc = "clear_individuals"
    /\ individual_validators' = <<>>
    /\ pc' = "load_groups"
    /\ UNCHANGED <<group_validators, new_config, service_config, outcome,
                   retired>>
    /\ response' = {}

\* The group loop of _load_config.
ReloadLoadGroups ==
    /\ pc = "load_groups"
    /\ \E c \in new_config :
       \E tape \in [1..SumSaltCalls(GetList(c, "groups")) -> Salts] :
       \E g \in {IF Truthy(c, "groups")
                 THEN LoadGroups(group_validators, GetList(c, "groups"), tape)
                 ELSE [raised |-> FALSE, validators |-> group_validators]} :
         /\ group_validators' = g.validators
         /\ IF g.raised
            THEN /\ pc' = "idle"
                 /\ outcome' = "rebuild_raised"
                 /\ service_config' = {}
                 /\ new_config' = {}
            ELSE /\ pc' = "load_secrets"
                 /\ UNCHANGED <<outcome, service_config, new_config>>
    /\ response' = {}
    /\ UNCHANGED <<individual_validators, retired>>

\* The secret loop of _load_config, and the handler's return.
ReloadLoadSecrets ==
    /\ pc = "load_secrets"
    /\ \E c \in new_config :
       \E tape \in [1..Len(GetList(c, "secrets")) -> Salts] :
       \E s \in {IF Truthy(c, "secrets")
                 THEN LoadSecrets(individual_validators, GetList(c, "secrets"), tape)
                 ELSE [raised |-> FALSE, validators |-> individual_validators]} :
         /\ individual_validators' = s.validators
         /\ outcome' = IF s.raised THEN "rebuild_raised" ELSE "reloaded"
         /\ service_config' = IF s.raised THEN {} ELSE {c}
    /\ pc' = "idle"
    /\ new_config' = {}
    /\ response' = {}
    /\ UNCHANGED <<group_validators, retired>>

Next == CheckSecret
Spec == Init /\ [][Next]_vars

NextReload == ReloadCall \/ ReloadEntry
SpecReload == InitReload /\ [][NextReload]_vars

NextSteps ==
    \/ ReloadCall
    \/ ReloadFetched
    \/ ReloadClearGroups
    \/ ReloadClearIndividuals
    \/ ReloadLoadGroups
    \/ ReloadLoadSecrets
    \/ CheckSecret
SpecSteps == InitSteps /\ [][NextSteps]_vars

\* =================================================================== claims
\* What a configuration prescribes, read off the configuration alone.
Secrets(service_cfg) == GetList(service_cfg, "secrets")
Groups(service_cfg) == GetList(service_cfg, "groups")
SecretNames(service_cfg) == {Secrets(service_cfg)[i].secret : i \in DOMAIN Secrets(service_cfg)}
GroupNames(service_cfg) == {Groups(service_cfg)[i].group : i \in DOMAIN Groups(service_cfg)}
UniqueSecret(service_cfg, i) ==
    \A j \in DOMAIN Secrets(service_cfg) :
        Secrets(service_cfg)[j].secret = Secrets(service_cfg)[i].secret => j = i
UniqueGroup(service_cfg, i) ==
    \A j \in DOMAIN Groups(service_cfg) :
        Groups(service_cfg)[j].group = Groups(service_cfg)[i].group => j = i
MemberValues(group_config) ==
    {group_config.secrets[j].value : j \in DOMAIN group_config.secrets}
Hashable == Values \ Unhashable
Last(S) == CHOOSE i \in S : \A j \in S : j <= i
\* The answer the configuration prescribes for validate(name, value): the last
\* entry of a name counts, an individual secret before a group.
Prescribed(service_cfg, name, value) ==
    LET si == {i \in DOMAIN Secrets(service_cfg) : Secrets(service_cfg)[i].secret = name}
        gi == {i \in DOMAIN Groups(service_cfg) : Groups(service_cfg)[i].group = name}
    IN IF si # {}
       THEN IF value \in Unhashable THEN RAISED
            ELSE IF Secrets(service_cfg)[Last(si)].value = value THEN SUCCESS
            ELSE FAILED_INVALID
       ELSE IF gi # {}
       THEN IF value \in Unhashable THEN RAISED
            ELSE IF value \in MemberValues(Groups(service_cfg)[Last(gi)]) THEN SUCCESS
            ELSE FAILED_INVALID
       ELSE FAILED_INVALID
Validate(name, value) == validate(individual_validators, group_validators, name, value)

C7_ValidateReadOnly ==
    [][pc' = pc =>
        /\ individual_validators' = individual_validators
        /\ group_validators' = group_validators
        /\ \A r \in response : \A q \in response' :
               (q.call.name = r.call.name /\ q.call.value = r.call.value)
                   => q.result = r.result]_vars
\* A check_secret call was answered SUCCESS by a group, and the same call
\* would be answered SUCCESS again.
C7_Witness ==
    \E r \in response :
        /\ r.call.name \in DOMAIN group_validators \ DOMAIN individual_validators
        /\ r.result = SUCCESS
        /\ Validate(r.call.name, r.call.value) = SUCCESS

UseFullResponse(call) ==
    IF "full_response" \in DOMAIN call THEN call.full_response ELSE FALSE
\* C8: a check_secret call that returns, returns the ValidateResult of
\* validate(name, value) when full_response is true, and the boolean
\* "validate(name, value) is SUCCESS" when full_response is false or absent.
C8_FullResponse ==
    \A r \in response :
        Validate(r.call.name, r.call.value) \in ValidateResult =>
            r.returned = IF UseFullResponse(r.call)
                         THEN <<"ValidateResult", Validate(r.call.name, r.call.value)>>
                         ELSE <<"bool", Validate(r.call.name, r.call.value) = SUCCESS>>
\* A call with full_response true was answered "failed_invalid".
C8_Witness ==
    \E r \in response :
        /\ "full_response" \in DOMAIN r.call
        /\ r.call.full_response
        /\ r.returned = <<"ValidateResult", FAILED_INVALID>>

\* The last member of a group that has the given value.
LastWithValue(group_config, value) ==
    Last({j \in DOMAIN group_config.secrets : group_config.secrets[j].value = value})
\* C9 as stated: the index of a constructed group has as many keys as the
\* group has members, and each member's own validator is the entry under
\* hash(member.value, group salt).
C9_OneEntryPerMember_AsStated ==
    \A cfg \in service_config : \A i \in DOMAIN Groups(cfg) :
        UniqueGroup(cfg, i) =>
            LET members == Groups(cfg)[i].secrets
                self == group_validators[Groups(cfg)[i].group]
            IN /\ Cardinality(DOMAIN self.validators) = Len(members)
               /\ \A j \in DOMAIN members :
                    LET key == hashpw(members[j].value, self.salt) IN
                    /\ key \in DOMAIN self.validators
                    /\ self.validators[key].name = members[j].secret
                    /\ SecretValidator_validate(self.validators[key], members[j].value)
                           = SUCCESS
\* C9 amended: the index has one key per distinct member value (as many as
\* members when their values differ pairwise), and the entry under
\* hash(member.value, group salt) is the validator of the last member
\* configured with that value.
C9_OneEntryPerValue ==
    \A cfg \in service_config : \A i \in DOMAIN Groups(cfg) :
        UniqueGroup(cfg, i) =>
            LET members == Groups(cfg)[i].secrets
                self == group_validators[Groups(cfg)[i].group]
            IN /\ Cardinality(DOMAIN self.validators)
                      = Cardinality(MemberValues(Groups(cfg)[i]))
               /\ Cardinality(MemberValues(Groups(cfg)[i])) = Len(members)
                      => Cardinality(DOMAIN self.validators) = Len(members)
               /\ \A j \in DOMAIN members :
                    LET key == hashpw(members[j].value, self.salt) IN
                    /\ key \in DOMAIN self.validators
                    /\ self.validators[key].name =
                           members[LastWithValue(Groups(cfg)[i], members[j].value)].secret
                    /\ SecretValidator_validate(self.validators[key], members[j].value)
                           = SUCCESS
\* A group was constructed from two members of different names and the same
\* value; its index has one key.
C9_Witness ==
    \E cfg \in service_config : \E i \in DOMAIN Groups(cfg) :
        /\ Len(Groups(cfg)[i].secrets) = 2
        /\ Groups(cfg)[i].secrets[1].secret # Groups(cfg)[i].secrets[2].secret
        /\ Groups(cfg)[i].secrets[1].value = Groups(cfg)[i].secrets[2].value
        /\ Cardinality(DOMAIN group_validators[Groups(cfg)[i].group].validators) = 1

\* C10: when a name is configured as an individual secret (once) and as a
\* group, both maps hold their entry for it, validate(name, value) is the
\* answer of the individual validator alone, and it is SUCCESS exactly for
\* the individual secret's value.
C10_IndividualFirst ==
    \A cfg \in service_config : \A i \in DOMAIN Secrets(cfg) : \A g \in DOMAIN Groups(cfg) :
        (UniqueSecret(cfg, i) /\ UniqueGroup(cfg, g)
            /\ Secrets(cfg)[i].secret = Groups(cfg)[g].group) =>
            LET name == Secrets(cfg)[i].secret IN
            /\ name \in DOMAIN individual_validators
            /\ name \in DOMAIN group_validators
            /\ individual_validators[name].name = name
            /\ group_validators[name].name = name
            /\ Cardinality(DOMAIN group_validators[name].validators)
                   = Cardinality(MemberValues(Groups(cfg)[g]))
            /\ \A value \in Values :
                   Validate(name, value)
                       = SecretValidator_validate(individual_validators[name], value)
            /\ \A value \in Hashable :
                   Validate(name, value) = SUCCESS <=> value = Secrets(cfg)[i].value
\* A call for a name that is both an individual secret and a group, with a
\* value that is a member's but not the individual secret's, was answered
\* FAILED_INVALID.
C10_Witness ==
    \E r \in response : \E cfg \in service_config :
    \E i \in DOMAIN Secrets(cfg) : \E g \in DOMAIN Groups(cfg) :
        /\ r.call.name = Secrets(cfg)[i].secret
        /\ r.call.name = Groups(cfg)[g].group
        /\ r.call.value \in MemberValues(Groups(cfg)[g])
        /\ r.call.value # Secrets(cfg)[i].value
        /\ r.result = FAILED_INVALID

\* C3: once a reload has completed, the registry is the new configuration's
\* alone: the maps' keys are its names, validate answers what it prescribes
\* for every name and value, and no name it dropped gets SUCCESS.
C3_ReloadReplaces ==
    outcome = "reloaded" =>
        /\ service_config # {}
        /\ \A cfg \in service_config :
             /\ DOMAIN individual_validators = SecretNames(cfg)
             /\ DOMAIN group_validators = GroupNames(cfg)
             /\ \A name \in Names : \A value \in Values :
                    Validate(name, value) = Prescribed(cfg, name, value)
        /\ \A name \in retired : \A value \in Values : Validate(name, value) # SUCCESS
\* A reload with a configuration that omits "secrets" has completed, it
\* dropped a name of the old configuration, and a group of the new one
\* answers SUCCESS.
C3_Witness ==
    /\ outcome = "reloaded"
    /\ retired # {}
    /\ \E cfg \in service_config :
         /\ "secrets" \notin DOMAIN cfg
         /\ \E name \in GroupNames(cfg) : \E value \in Values :
                Validate(name, value) = SUCCESS

C5_FailedReloadKeepsMaps ==
    [][(pc = "awaiting" /\ outcome' \in {"ValueError", "rebuild_raised"}) =>
          /\ individual_validators' = individual_validators
          /\ group_validators' = group_validators]_vars

====
